---- MODULE Spec2Model ----
(***************************************************************************)
(* Frankfurt air-quality predictor: the ingestion command (dataset.py),    *)
(* the feature command (features.py), the training command                 *)
(* (modeling/train.py) and the prediction commands (modeling/predict.py)   *)
(* as one state machine.  Each command is one action; the tables it builds *)
(* are kept in the state so that the properties can inspect them.          *)
(*                                                                         *)
(* Abstractions.  A timestamp is an integer hour count, a reading is an    *)
(* integer number of ug/m3 and NaN (a missing cell) is -1; a mean is the   *)
(* exact pair (sum, number of observations), so means are compared as      *)
(* rationals.  The rolling standard deviations and the exponential moving  *)
(* averages of features.py are not modelled (no column derived from them   *)
(* is read by any modelled step).  The fitted models are opaque: only the  *)
(* calls made on them and the feature names they carry are recorded.       *)
(***************************************************************************)
EXTENDS Integers, Sequences, FiniteSets, TLC

\* ------------------------------------------------------------------ bounds
MaxLen == 2
MaxDate == 2
MaxN == 40
WeekLen == 170

\* ------------------------------------------------------- values and inputs
NaN == -1

NaNMean == [sum |-> 0, nobs |-> 0]

\* the missing reading, the guideline value itself and a reading above it
Readings == {NaN, 15, 16}

\* every short hourly response: any order, repeated timestamps, nulls
SmallSeries ==
  UNION { [1..n -> [date : 1..MaxDate, pm25 : Readings]] : n \in 0..MaxLen }

Patterns == {"const", "alt", "ramp", "rev", "dup", "gaps", "clash"}

PatternDate(p, i, n) ==
  CASE p = "rev" -> n + 1 - i
    [] p = "dup" -> (i + 1) \div 2
    [] p = "clash" /\ i = n /\ n > 1 -> n - 1
    [] OTHER     -> i

PatternPm25(p, i, n) ==
  CASE p = "const" -> 20
    [] p = "alt"   -> IF i % 2 = 1 THEN 5 ELSE 25
    [] p = "clash" -> IF i % 2 = 1 THEN 15 ELSE 16
    [] p = "dup"   -> 10 + (((i + 1) \div 2) % 8)
    [] p = "gaps"  -> IF i % 5 = 0 THEN NaN ELSE 8 + (i % 11)
    [] OTHER       -> 8 + (i % 11)

PatternSeries(p, n) ==
  [i \in 1..n |-> [date |-> PatternDate(p, i, n), pm25 |-> PatternPm25(p, i, n)]]

LongSeries ==
  { PatternSeries(p, n) : p \in Patterns, n \in (0..MaxN) \cup {WeekLen} }

RawInputs == SmallSeries \cup LongSeries

\* ------------------------------------------------------- pandas operations
\* a column is an array: every cell is computed once
Column(s) == SubSeq(s, 1, Len(s))

Pm25Column(df) == Column([i \in 1..Len(df) |-> df[i].pm25])

\* (mutation: the shift goes the other way)
ShiftWrongWay(x, k) ==
  Column([i \in 1..Len(x) |-> IF (i + k) \in 1..Len(x) THEN x[i + k] ELSE NaN])

\* Series.shift(k): row i takes the value of row i - k, NaN outside
Shift(x, k) ==
  Column([i \in 1..Len(x) |-> IF (i - k) \in 1..Len(x) THEN x[i - k] ELSE NaN])

\* DataFrame.sort_values('date').reset_index(drop=True): the rows in
\* ascending timestamp order.  The default sort is not stable, so every
\* order of the rows that share a timestamp is a possible result.
RemoveAt(b, i) == SubSeq(b, 1, i - 1) \o SubSeq(b, i + 1, Len(b))

RECURSIVE Orders(_)
Orders(b) ==
  IF Len(b) = 0 THEN {<<>>}
  ELSE UNION { { <<b[i]>> \o t : t \in Orders(RemoveAt(b, i)) } : i \in 1..Len(b) }

RECURSIVE SortRange(_, _, _)
SortRange(df, lo, hi) ==
  IF lo > hi THEN {<<>>}
  ELSE IF lo = hi THEN Orders(SelectSeq(df, LAMBDA r : r.date = lo))
  ELSE LET mid == (lo + hi) \div 2
       IN  { a \o b : a \in SortRange(df, lo, mid),
                      b \in SortRange(df, mid + 1, hi) }

SortValues(df) ==
  IF Len(df) = 0 THEN {<<>>}
  ELSE LET ds == {df[i].date : i \in 1..Len(df)}
           lo == CHOOSE d \in ds : \A e \in ds : d <= e
           hi == CHOOSE d \in ds : \A e \in ds : e <= d
       IN  SortRange(df, lo, hi)

\* rolling(window=w, min_periods=1).mean(): the sliding accumulator of
\* pandas.  Moving to row i it removes the values that left the window
\* [WindowStart(i), i], then adds the entering one; NaN is skipped; the
\* result is sum / nobs when nobs >= min_periods.  After row i the
\* accumulator therefore holds everything added (rows 1..i) less
\* everything removed (rows 1..WindowStart(i) - 1).
AddMean(acc, v) ==
  IF v = NaN THEN acc ELSE [sum |-> acc.sum + v, nobs |-> acc.nobs + 1]

\* the accumulator after each of the adds of rows a..b, starting from acc
RECURSIVE RunningAdds(_, _, _, _)
RunningAdds(x, a, b, acc) ==
  IF a > b THEN <<>>
  ELSE IF a = b THEN <<AddMean(acc, x[a])>>
  ELSE LET m == (a + b) \div 2
           l == RunningAdds(x, a, m, acc)
       IN  l \o RunningAdds(x, m + 1, b, l[Len(l)])

CalcMean(acc, minp) ==
  IF acc.nobs >= minp /\ acc.nobs > 0 THEN acc ELSE NaNMean

\* (mutation: the window keeps one row too many)
WindowStartLate(i, w) == IF i > w + 1 THEN i - w ELSE 1

WindowStart(i, w) == IF i > w THEN i - w + 1 ELSE 1

RollingMean(x, w) ==
  LET added == RunningAdds(x, 1, Len(x), NaNMean)
  IN  Column([i \in 1..Len(x) |->
        LET removed == IF WindowStart(i, w) > 1
                       THEN added[WindowStart(i, w) - 1] ELSE NaNMean
        IN  CalcMean([sum |-> added[i].sum - removed.sum,
                      nobs |-> added[i].nobs - removed.nobs], 1)])

\* ------------------------------------------------------------- dataset.py
HourOf(d) == d % 24

DayOfWeek(d) == (d \div 24) % 7

DropNaPm25(df) == SelectSeq(df, LAMBDA r : r.pm25 # NaN)

\* (mutation: the guideline value itself is labelled high)
IsHighPollutionInclusive(v) == IF v # NaN /\ v >= 15 THEN 1 ELSE 0

\* (pm25 > 15).astype(int)
IsHighPollution(v) == IF v # NaN /\ v > 15 THEN 1 ELSE 0

\* the frame built from a sorted, null-free frame (dataset.py 75-85)
ProcessedFrame(sorted) ==
  LET x  == Pm25Column(sorted)
      r6 == RollingMean(x, 6)
      r24 == RollingMean(x, 24)
  IN  Column([i \in 1..Len(sorted) |->
         [date |-> sorted[i].date, pm25 |-> x[i],
          hour |-> HourOf(sorted[i].date),
          day_of_week |-> DayOfWeek(sorted[i].date),
          rolling_6h |-> r6[i], rolling_24h |-> r24[i],
          is_high_pollution |-> IsHighPollution(x[i])]])

ProcessedCols ==
  {"date", "pm25", "city", "hour", "day_of_week", "rolling_6h", "rolling_24h",
   "is_high_pollution"}

RawCols == {"date", "pm25"}

\* ------------------------------------------------------------ features.py
\* the lists the loops of features.py 37 and 41 run over; column k of
\* lag / rolling_mean below is the column of the k-th list entry
Lags == <<1, 24, 168>>

Windows == <<6, 24, 168>>

\* (mutation: the guideline value itself counts as a violation)
TargetViolationInclusive(t) == IF t # NaN /\ t >= 15 THEN 1 ELSE 0

TargetViolation(t) == IF t # NaN /\ t > 15 THEN 1 ELSE 0

\* the frame before the final dropna (features.py 30-51)
FeatureFrame(sorted) ==
  LET x   == Pm25Column(sorted)
      lag == Column([k \in 1..Len(Lags) |-> Shift(x, Lags[k])])
      rm  == Column([k \in 1..Len(Windows) |-> RollingMean(x, Windows[k])])
      tgt == Shift(x, -1)
  IN  Column([i \in 1..Len(sorted) |->
         [idx |-> i, date |-> sorted[i].date, pm25 |-> x[i],
          hour |-> HourOf(sorted[i].date),
          day_of_week |-> DayOfWeek(sorted[i].date),
          lag |-> [k \in 1..Len(Lags) |-> lag[k][i]],
          rolling_mean |-> [k \in 1..Len(Windows) |-> rm[k][i]],
          target_pm25 |-> tgt[i],
          target_violation |-> TargetViolation(tgt[i])]])

\* (mutation: dropna() without the subset)
DropNaTargetAny(df) ==
  SelectSeq(df, LAMBDA r : r.target_pm25 # NaN
                           /\ \A k \in 1..Len(Lags) : r.lag[k] # NaN)

\* dropna(subset=['target_pm25'])
DropNaTarget(df) == SelectSeq(df, LAMBDA r : r.target_pm25 # NaN)

\* --------------------------------------------------------------- train.py
TrainLags == <<1, 24>>

FeatureCols ==
  <<"hour", "day_of_week", "rolling_24h", "lag_1", "lag_24", "rolling_mean_24">>

AvailableFeatures(cols) == SelectSeq(FeatureCols, LAMBDA c : c \in cols)

TrainAddedCols == {"lag_1", "lag_24", "rolling_mean_24", "target_reg", "target_cls"}

TargetCls(t) == IF t # NaN /\ t > 15 THEN 1 ELSE 0

\* the frame before dropna (train.py 41-50)
TrainFrame(sorted) ==
  LET x   == Pm25Column(sorted)
      lag == Column([k \in 1..Len(TrainLags) |-> Shift(x, TrainLags[k])])
      rm  == RollingMean(x, 24)
      tgt == Shift(x, -1)
  IN  Column([i \in 1..Len(sorted) |->
         [idx |-> i, date |-> sorted[i].date, pm25 |-> x[i],
          carried_nan |-> sorted[i].carried_nan,
          is_high_pollution |-> sorted[i].is_high_pollution,
          lag |-> [k \in 1..Len(TrainLags) |-> lag[k][i]],
          rolling_mean_24 |-> rm[i],
          target_reg |-> tgt[i],
          target_cls |-> TargetCls(tgt[i])]])

RowHasNaN(r) ==
  \/ r.pm25 = NaN
  \/ r.carried_nan
  \/ \E k \in 1..Len(TrainLags) : r.lag[k] = NaN
  \/ r.rolling_mean_24 = NaNMean
  \/ r.target_reg = NaN

\* dropna(): every row with a NaN in any column goes
DropNaAny(df) == SelectSeq(df, LAMBDA r : ~RowHasNaN(r))

\* int(len(X) * 0.8); in double arithmetic this is floor(8 n / 10) for
\* every n below two million
SplitPoint(n) == (n * 8) \div 10

TrainSlice(X, split) == SubSeq(X, 1, split)

TestSlice(X, split) == SubSeq(X, split + 1, Len(X))

\* y_reg / y_cls take a single value over the rows
ConstantReg(rows) ==
  \A i, j \in 1..Len(rows) : rows[i].target_reg = rows[j].target_reg

ConstantCls(rows) ==
  \A i, j \in 1..Len(rows) : rows[i].target_cls = rows[j].target_cls

\* the calls of train.py 73-86 in order; none is guarded
TrainSteps == <<"fit_reg", "score_reg", "fit_cls", "score_cls", "save">>

\* The estimators and metrics are library code.  Fitting on a degenerate
\* argument (no rows, or a classification target with a single class) may
\* raise a library exception or may go through, depending on the library
\* version; scoring against no rows always raises (the metric's input
\* validation rejects an empty array); every other call goes through.
MayRaise(step, xtrain, xtest) ==
  CASE step = "fit_reg" -> Len(xtrain) = 0
    [] step = "fit_cls" -> Len(xtrain) = 0 \/ ConstantCls(xtrain)
    [] OTHER            -> FALSE

MustRaise(step, xtrain, xtest) ==
  step \in {"score_reg", "score_cls"} /\ Len(xtest) = 0

\* the steps at which the run can end with an exception; 0 is "at none"
FailPoints(xtrain, xtest) ==
  LET ks    == 1..Len(TrainSteps)
      must  == {k \in ks : MustRaise(TrainSteps[k], xtrain, xtest)}
      first == IF must = {} THEN 0 ELSE CHOOSE k \in must : \A j \in must : k <= j
      may   == {k \in ks : MayRaise(TrainSteps[k], xtrain, xtest)}
  IN  IF first = 0 THEN {0} \cup may
      ELSE {first} \cup {k \in may : k < first}

TrainNotRun ==
  [status |-> "not_run", error |-> "none", features |-> <<>>, full |-> <<>>,
   matrix |-> <<>>, split |-> 0, xtrain |-> <<>>, xtest |-> <<>>,
   steps |-> <<>>]

\* ------------------------------------------------------------- predict.py
PredictCalls == <<"reg_predict", "cls_predict", "cls_predict_proba">>

QuickCols ==
  {"hour", "day_of_week", "rolling_24h", "lag_1", "lag_24", "rolling_mean_24"}

GeneratedCols ==
  {"hour", "day_of_week", "rolling_24h", "lag_1", "lag_24", "rolling_mean_24"}

\* the feature files tried: all six columns, with or without an empty
\* cell, or all columns but one
FileFrames ==
  { [cols |-> GeneratedCols, has_nan |-> b] : b \in BOOLEAN }
    \cup { [cols |-> GeneratedCols \ {c}, has_nan |-> FALSE] : c \in GeneratedCols }

Names(seq) == {seq[k] : k \in 1..Len(seq)}

PredNotRun ==
  [cmd |-> "none", status |-> "not_run", error |-> "none", cols |-> {},
   has_nan |-> FALSE, applied |-> <<>>, written |-> FALSE]

\* Both commands hand the frame to the models without looking at its
\* columns.  The library may raise on the first call when the frame's
\* columns differ from the names the model was fitted with.
Predicted(cmd, cols, hasNaN, raises) ==
  [cmd |-> cmd, cols |-> cols, has_nan |-> hasNaN,
   status |-> IF raises THEN "raised" ELSE "success",
   error |-> IF raises THEN "LibraryError" ELSE "none",
   applied |-> IF raises THEN SubSeq(PredictCalls, 1, 1) ELSE PredictCalls,
   written |-> (cmd = "main" /\ ~raises)]

\* the three stages of dataset.main, in the order of the try block
Stages == <<"fetch", "process", "save">>

IngestNotRun ==
  [status |-> "not_run", error |-> "none", stages |-> <<>>, logged |-> FALSE,
   names_stage |-> FALSE, save_refused |-> FALSE]

\* the except block of dataset.main after stage number failedAt raised:
\* "Pipeline failed: <message of the error>" is logged, and the bare raise
\* hands the caller the exception object the stage raised; neither the
\* message nor the exception is given the name of the stage
Reraised(error, failedAt) ==
  [IngestNotRun EXCEPT !.status = "raised", !.error = error,
                       !.stages = SubSeq(Stages, 1, failedAt),
                       !.logged = TRUE]

\* ------------------------------------------------------------------ state
VARIABLES
  raw,        \* the hourly series: held by the upstream service, or a raw file
  source,     \* the file the session works on: "processed" or "raw"
  pc,         \* the next command of the session
  ingest,     \* outcome of dataset.main
  processed,  \* the frame process_air_quality_data returned
  csvExists,  \* frankfurt_pm25_processed.csv has been written
  feat,       \* outcome of features.main
  train,      \* outcome of train.main
  models,     \* the two persisted models and the names they were fitted with
  pred        \* outcome of predict.main or predict.quick

vars == <<raw, source, pc, ingest, processed, csvExists, feat, train, models, pred>>

Init ==
  /\ raw \in RawInputs
  /\ \/ source = "processed" /\ pc = "dataset"
     \/ source = "raw" /\ pc = "features"
  /\ ingest = IngestNotRun
  /\ processed = <<>>
  /\ csvExists = FALSE
  /\ feat = [status |-> "not_run", full |-> <<>>, out |-> <<>>, saved |-> FALSE]
  /\ train = TrainNotRun
  /\ models = [saved |-> FALSE, feature_names |-> <<>>]
  /\ pred = PredNotRun

\* dataset.main: fetch, process, save inside one try block.  A stage that
\* raises ends the block; the handler logs the error and re-raises it.
\* save_processed_data refuses an empty frame by logging and returning.
DatasetMain ==
  /\ pc = "dataset"
  /\ \E resp \in {"ok", "http_error", "no_hourly", "disk_error"} :
       CASE resp = "http_error" ->
              /\ ingest' = Reraised("RequestException", 1)
              /\ pc' = "done"
              /\ UNCHANGED <<processed, csvExists>>
         [] resp = "no_hourly" ->
              /\ ingest' = Reraised("KeyError", 2)
              /\ pc' = "done"
              /\ UNCHANGED <<processed, csvExists>>
         [] OTHER ->
              \E sorted \in SortValues(DropNaPm25(raw)) :
                /\ processed' = ProcessedFrame(sorted)
                /\ IF resp = "disk_error" /\ Len(sorted) > 0
                   THEN /\ ingest' = Reraised("OSError", 3)
                        /\ pc' = "done"
                        /\ UNCHANGED csvExists
                   ELSE /\ ingest' = [IngestNotRun EXCEPT
                                        !.status = "returned",
                                        !.stages = Stages,
                                        !.save_refused = (Len(sorted) = 0)]
                        /\ csvExists' = (csvExists \/ Len(sorted) > 0)
                        /\ pc' = "features"
  /\ UNCHANGED <<raw, source, feat, train, models, pred>>

\* pd.read_csv of the file the commands are pointed at: the processed
\* file, or a raw dataset with only the 'date' and 'pm25' columns.  Of the
\* other columns of the processed file only "has a NaN cell" and the
\* ingestion's is_high_pollution are kept; a raw dataset has no
\* is_high_pollution column (NaN stands for the absent cell).
InputRows ==
  IF source = "raw"
  THEN [i \in 1..Len(raw) |->
          [date |-> raw[i].date, pm25 |-> raw[i].pm25, carried_nan |-> FALSE,
           is_high_pollution |-> NaN]]
  ELSE [i \in 1..Len(processed) |->
          [date |-> processed[i].date, pm25 |-> processed[i].pm25,
           carried_nan |-> (processed[i].rolling_6h = NaNMean
                            \/ processed[i].rolling_24h = NaNMean),
           is_high_pollution |-> processed[i].is_high_pollution]]

InputCols == IF source = "raw" THEN RawCols ELSE ProcessedCols

InputExists == source = "raw" \/ csvExists

\* features.main
FeaturesMain ==
  /\ pc = "features"
  /\ pc' = "train"
  /\ IF ~InputExists
       THEN feat' = [status |-> "FileNotFoundError", full |-> <<>>,
                     out |-> <<>>, saved |-> FALSE]
       ELSE IF Len(InputRows) = 0
       THEN feat' = [status |-> "empty_logged", full |-> <<>>,
                     out |-> <<>>, saved |-> FALSE]
       ELSE \E sorted \in SortValues(InputRows) :
              LET full == FeatureFrame(sorted)
              IN  feat' = [status |-> "ok", full |-> full,
                           out |-> DropNaTarget(full), saved |-> TRUE]
  /\ UNCHANGED <<raw, source, ingest, processed, csvExists, train, models, pred>>

\* train.main
TrainMain ==
  /\ pc = "train"
  /\ pc' = "predict"
  /\ IF ~InputExists
       THEN /\ train' = [TrainNotRun EXCEPT !.status = "raised",
                                            !.error = "FileNotFoundError"]
            /\ UNCHANGED models
       ELSE IF Len(InputRows) = 0
       THEN /\ train' = [TrainNotRun EXCEPT !.status = "no_data"]
            /\ UNCHANGED models
       ELSE \E sorted \in SortValues(InputRows) :
              LET full   == TrainFrame(sorted)
                  matrix == DropNaAny(full)
                  names  == AvailableFeatures(InputCols \cup TrainAddedCols)
                  split  == SplitPoint(Len(matrix))
                  xtrain == TrainSlice(matrix, split)
                  xtest  == TestSlice(matrix, split)
              IN  \E failAt \in FailPoints(xtrain, xtest) :
                    /\ train' =
                         [status |-> IF failAt = 0 THEN "success" ELSE "raised",
                          error |-> IF failAt = 0 THEN "none" ELSE "LibraryError",
                          features |-> names, full |-> full, matrix |-> matrix,
                          split |-> split, xtrain |-> xtrain, xtest |-> xtest,
                          steps |-> IF failAt = 0 THEN TrainSteps
                                    ELSE SubSeq(TrainSteps, 1, failAt)]
                    /\ models' = IF failAt = 0
                                 THEN [saved |-> TRUE, feature_names |-> names]
                                 ELSE models
  /\ UNCHANGED <<raw, source, ingest, processed, csvExists, feat, pred>>

\* predict.main
PredictMain ==
  /\ pc = "predict"
  /\ pc' = "done"
  /\ IF ~models.saved
     THEN pred' = [PredNotRun EXCEPT !.cmd = "main", !.status = "raised",
                                     !.error = "FileNotFoundError"]
     ELSE \E fileExists \in BOOLEAN :
          \E X_test \in (IF fileExists THEN FileFrames
                         ELSE {[cols |-> GeneratedCols, has_nan |-> FALSE]}) :
          \E raises \in (IF X_test.cols # Names(models.feature_names)
                         THEN BOOLEAN ELSE {FALSE}) :
            pred' = Predicted("main", X_test.cols, X_test.has_nan, raises)
  /\ UNCHANGED <<raw, source, ingest, processed, csvExists, feat, train, models>>

\* predict.quick
Quick ==
  /\ pc = "predict"
  /\ pc' = "done"
  /\ IF ~models.saved
     THEN pred' = [PredNotRun EXCEPT !.cmd = "quick", !.status = "raised",
                                     !.error = "FileNotFoundError"]
     ELSE \E raises \in (IF QuickCols # Names(models.feature_names)
                         THEN BOOLEAN ELSE {FALSE}) :
            pred' = Predicted("quick", QuickCols, FALSE, raises)
  /\ UNCHANGED <<raw, source, ingest, processed, csvExists, feat, train, models>>

\* A session runs the commands once each in the order of their data
\* dependencies: ingestion (skipped when the session works on a raw file),
\* features, training, then one of the two prediction commands.
Next ==
  \/ DatasetMain
  \/ FeaturesMain
  \/ TrainMain
  \/ PredictMain
  \/ Quick

Spec == Init /\ [][Next]_vars

\* ============================================================== properties
NullFree(df) == \A i \in 1..Len(df) : df[i].pm25 # NaN

SortedByDate(df) == \A i, j \in 1..Len(df) : i < j => df[i].date <= df[j].date

Min(a, b) == IF a < b THEN a ELSE b

FeaturesBuilt == feat.status = "ok"

\* train.main got past the load and the empty check and built its matrix
TrainBuilt == train.status \in {"success", "raised"} /\ train.full # <<>>

\* C1: for a null-free input of N >= 2 rows the feature command returns
\* exactly N - 1 rows: the rows of the sorted frame without its last row
\* (the last timestamp), in order, and nothing else is dropped.
C1_DropsOnlyLastRow ==
  (FeaturesBuilt /\ NullFree(InputRows) /\ Len(InputRows) >= 2) =>
     /\ Len(feat.full) = Len(InputRows)
     /\ SortedByDate(feat.full)
     /\ Len(feat.out) = Len(InputRows) - 1
     /\ feat.out = SubSeq(feat.full, 1, Len(InputRows) - 1)

C1_Witness ==
  /\ FeaturesBuilt /\ NullFree(InputRows) /\ Len(InputRows) >= 30
  /\ Len(feat.out) = Len(InputRows) - 1
  /\ feat.out[1].lag[1] = NaN

\* C2: in every retained row of the feature frame and of the training
\* matrix the violation flag is 1 exactly when the next-hour reading is
\* strictly above 15, so a next-hour reading of exactly 15 gives 0.
C2_ViolationIffAbove15 ==
  /\ \A i \in 1..Len(feat.out) :
       /\ feat.out[i].target_violation \in {0, 1}
       /\ feat.out[i].target_violation = 1 <=> feat.out[i].target_pm25 > 15
  /\ \A i \in 1..Len(train.matrix) :
       /\ train.matrix[i].target_cls \in {0, 1}
       /\ train.matrix[i].target_cls = 1 <=> train.matrix[i].target_reg > 15

C2_Witness ==
  /\ \E i \in 1..Len(feat.out) :
       feat.out[i].target_pm25 = 15 /\ feat.out[i].target_violation = 0
  /\ \E i \in 1..Len(feat.out) :
       feat.out[i].target_pm25 = 16 /\ feat.out[i].target_violation = 1
  /\ \E i \in 1..Len(train.matrix) :
       train.matrix[i].target_reg = 15 /\ train.matrix[i].target_cls = 0
  /\ \E i \in 1..Len(train.matrix) :
       train.matrix[i].target_reg = 16 /\ train.matrix[i].target_cls = 1

\* C3: for each lag L of 1, 24 and 168 and each row i of the sorted frame,
\* the lag-L feature is the reading of row i - L when that row exists and
\* is missing otherwise (rows are counted from 1 here, so "exists" is
\* i > L).
LagColumn(L) == CHOOSE k \in 1..Len(Lags) : Lags[k] = L

C3_LagIsEarlierReading ==
  FeaturesBuilt =>
    /\ SortedByDate(feat.full)
    /\ \A L \in {1, 24, 168} :
         /\ \E k \in 1..Len(Lags) : Lags[k] = L
         /\ \A i \in 1..Len(feat.full) :
              feat.full[i].lag[LagColumn(L)] =
                IF i > L THEN feat.full[i - L].pm25 ELSE NaN

C3_Witness ==
  /\ FeaturesBuilt /\ Len(feat.full) >= 170
  /\ feat.full[168].lag[LagColumn(168)] = NaN
  /\ feat.full[170].lag[LagColumn(168)] = feat.full[2].pm25
  /\ feat.full[170].lag[LagColumn(168)] # NaN
  /\ feat.full[170].lag[LagColumn(24)] # feat.full[170].lag[LagColumn(1)]

\* C4, as claimed: the training set is the first floor(0.8 N) rows of the
\* matrix, the test set the rest, the two have N rows together and no row
\* in common, and every training row's timestamp is before every test
\* row's timestamp.
C4_Positional ==
  TrainBuilt =>
    LET N == Len(train.matrix)
        k == (4 * N) \div 5
    IN  /\ train.split = k
        /\ train.xtrain = SubSeq(train.matrix, 1, k)
        /\ train.xtest = SubSeq(train.matrix, k + 1, N)
        /\ Len(train.xtrain) + Len(train.xtest) = N
        /\ \A a \in 1..Len(train.xtrain), b \in 1..Len(train.xtest) :
             train.xtrain[a].idx < train.xtest[b].idx
        /\ SortedByDate(train.matrix)

C4_TimestampsStrictlyApart ==
  TrainBuilt =>
    \A a \in 1..Len(train.xtrain), b \in 1..Len(train.xtest) :
      train.xtrain[a].date < train.xtest[b].date

C4_Claimed == C4_Positional /\ C4_TimestampsStrictlyApart

\* C5, as claimed: the matrix the models are trained on keeps every row
\* whose next-hour reading is defined, also the earliest rows, whose lag
\* features are undefined (stated for null-free input).
C5_Claimed ==
  (TrainBuilt /\ NullFree(train.full)) =>
    \A i \in 1..Len(train.full) :
      train.full[i].target_reg # NaN =>
        \E j \in 1..Len(train.matrix) : train.matrix[j].idx = i

\* C6, as claimed: on an input of fewer than two rows the feature command
\* fails with a DataError; it neither returns normally nor writes a matrix.
C6_Claimed ==
  (feat.status # "not_run" /\ InputExists /\ Len(InputRows) < 2) =>
    feat.status = "DataError" /\ ~feat.saved

\* C7, as claimed: when a target column is constant over the (non-empty)
\* training partition, training fails with a TrainingError: no model is
\* fitted, scored or persisted and the run is not a success.
C7_Claimed ==
  (TrainBuilt /\ Len(train.xtrain) > 0
     /\ (ConstantReg(train.xtrain)
         \/ ConstantCls(train.xtrain))) =>
    /\ train.error = "TrainingError"
    /\ train.steps = <<>>
    /\ train.status # "success"
    /\ ~models.saved

\* C8, as claimed: when the split leaves the training set or the test set
\* empty, the run fails with a ConfigError and no model is fitted on or
\* scored against the empty partition.
C8_Claimed ==
  (TrainBuilt /\ (Len(train.xtrain) = 0 \/ Len(train.xtest) = 0)) =>
    /\ train.error = "ConfigError"
    /\ train.steps = <<>>

\* C9, as claimed: when the input of a prediction command lacks a feature
\* name the models were fitted with, the command fails with a SchemaError
\* before either model is applied; an empty cell in a present column is
\* not an error.
C9_Claimed ==
  /\ (pred.status \in {"success", "raised"} /\ models.saved
        /\ \E c \in Names(models.feature_names) : c \notin pred.cols) =>
       pred.error = "SchemaError" /\ pred.applied = <<>>
  /\ (pred.status \in {"success", "raised"} /\ models.saved /\ pred.has_nan
        /\ pred.cols = Names(models.feature_names)) =>
       pred.status = "success"

\* C10: for each window W of 6, 24 and 168 and each row i of the sorted
\* frame, the rolling mean is the arithmetic mean of the readings of the
\* min(i, W) rows ending at row i (rows counted from 1), so no later row
\* enters it; the same for the 6- and 24-hour means of the ingestion
\* frame.  Stated for windows whose readings are all defined; means are
\* compared as exact fractions.
RECURSIVE ReadingSum(_, _, _)
ReadingSum(df, lo, hi) ==
  IF lo > hi THEN 0
  ELSE IF lo = hi THEN df[lo].pm25
  ELSE LET mid == (lo + hi) \div 2
       IN  ReadingSum(df, lo, mid) + ReadingSum(df, mid + 1, hi)

IsTrailingMean(m, df, i, W) ==
  LET n == Min(i, W)
  IN  (\A j \in (i - n + 1)..i : df[j].pm25 # NaN) =>
        /\ m.nobs > 0
        /\ m.sum * n = ReadingSum(df, i - n + 1, i) * m.nobs

WindowColumn(W) == CHOOSE k \in 1..Len(Windows) : Windows[k] = W

C10_RollingMeanIsTrailingMean ==
  /\ FeaturesBuilt =>
       /\ SortedByDate(feat.full)
       /\ \A W \in {6, 24, 168} :
            /\ \E k \in 1..Len(Windows) : Windows[k] = W
            /\ \A i \in 1..Len(feat.full) :
                 IsTrailingMean(feat.full[i].rolling_mean[WindowColumn(W)],
                                feat.full, i, W)
  /\ \A i \in 1..Len(processed) :
       /\ IsTrailingMean(processed[i].rolling_6h, processed, i, 6)
       /\ IsTrailingMean(processed[i].rolling_24h, processed, i, 24)

C10_Witness ==
  /\ FeaturesBuilt /\ Len(feat.full) >= 170 /\ NullFree(feat.full)
  /\ feat.full[3].rolling_mean[WindowColumn(6)].nobs = 3
  /\ feat.full[170].rolling_mean[WindowColumn(168)].nobs = 168
  /\ feat.full[170].rolling_mean[WindowColumn(168)].sum
       # feat.full[169].rolling_mean[WindowColumn(168)].sum
  /\ Len(processed) >= 170
  /\ processed[170].rolling_24h.nobs = 24

\* ---------------------------------------------------------------------
\* C11 (as claimed): the ingestion run executes fetch, process, save in
\* that order; when a stage raises, no later stage runs, and the error is
\* logged and re-raised to the caller carrying the name of the stage that
\* produced it; no error is swallowed.
\* The order, the early stop, the log line and the re-raise hold
\* (C11_StagesInOrder, C11_LoggedAndReraised).  The re-raised error does
\* not name its stage, and an empty frame at the save stage is logged as
\* an error while the run returns normally.
IngestRan == ingest.status # "not_run"

C11_StagesInOrder ==
  IngestRan =>
    /\ \E k \in 1..Len(Stages) : ingest.stages = SubSeq(Stages, 1, k)
    /\ ingest.status = "returned" => ingest.stages = Stages

C11_LoggedAndReraised ==
  IngestRan /\ ingest.error # "none" =>
    ingest.logged /\ ingest.status = "raised"

C11_ErrorNamesStage ==
  IngestRan /\ ingest.status = "raised" => ingest.names_stage

C11_NeverSwallowed ==
  IngestRan /\ ingest.save_refused => ingest.status = "raised"

C11_Claimed ==
  /\ C11_StagesInOrder
  /\ C11_LoggedAndReraised
  /\ C11_ErrorNamesStage
  /\ C11_NeverSwallowed

\* ---------------------------------------------------------------------
\* C12 (as claimed): for any raw input, duplicate timestamps and null
\* readings included, the frame process_air_quality_data returns has
\* strictly increasing timestamps: ascending, no two rows with the same
\* timestamp, and no null reading.
\* The frame is ascending and null-free (C12_Ascending, C12_NoNullReading);
\* rows that share a timestamp are all kept.
ProcessReturned == Len(ingest.stages) = Len(Stages)

C12_Ascending == ProcessReturned => SortedByDate(processed)

C12_NoNullReading == ProcessReturned => NullFree(processed)

C12_NoSharedTimestamp ==
  ProcessReturned =>
    \A i, j \in 1..Len(processed) :
      i # j => processed[i].date # processed[j].date

C12_Claimed ==
  /\ C12_Ascending
  /\ C12_NoNullReading
  /\ C12_NoSharedTimestamp

\* ---------------------------------------------------------------------
\* C13: on the processed file, for every row i the training command
\* retains, target_cls of row i equals the is_high_pollution cell that
\* ingestion gave to row i + 1 of the training command's sorted frame:
\* both are the test "reading > 15" on the reading of row i + 1.
C13_LabelsAgree ==
  (source = "processed" /\ TrainBuilt) =>
    \A j \in 1..Len(train.matrix) :
      LET i == train.matrix[j].idx
      IN  /\ i + 1 <= Len(train.full)
          /\ train.matrix[j].target_reg = train.full[i + 1].pm25
          /\ train.matrix[j].target_cls = train.full[i + 1].is_high_pollution

\* a retained row whose next reading is the guideline value itself (both
\* labels 0) while another row with the same timestamp as the next row
\* has a reading above it, and a retained row whose next reading is above
\* the guideline value (both labels 1)
C13_Witness ==
  /\ source = "processed" /\ TrainBuilt
  /\ \E j \in 1..Len(train.matrix) :
       LET nxt == train.matrix[j].idx + 1
       IN  /\ train.matrix[j].target_reg = 15
           /\ train.matrix[j].target_cls = 0
           /\ train.full[nxt].is_high_pollution = 0
           /\ \E k \in 1..Len(train.full) :
                /\ k # nxt
                /\ train.full[k].date = train.full[nxt].date
                /\ train.full[k].is_high_pollution = 1
  /\ \E j \in 1..Len(train.matrix) :
       /\ train.matrix[j].target_cls = 1
       /\ train.full[train.matrix[j].idx + 1].is_high_pollution = 1

====
